---- MODULE Spec2Model ----
(***************************************************************************)
(* A model of the container library: the hash map (map/hash_map.c) and the *)
(* vector (array/vector.c).  Each container is a state machine of its own; *)
(* SpecMap and SpecVec are their specifications.  C pointers are modelled  *)
(* as addresses (naturals, NULL = 0) into an explicit heap of nodes, C     *)
(* arrays as sequences whose element i+1 is the C element i.               *)
(***************************************************************************)
EXTENDS Integers, Sequences, FiniteSets, TLC

(***************************************************************************)
(* Bounds of the model.                                                    *)
(***************************************************************************)
\* The number of SlotNode addresses malloc can hand out.
MaxNodes == 2
\* The number of insertions a run makes (iSize_ counts them).
MaxPuts == 3

(***************************************************************************)
(* Return codes (util.h) and pointers.                                     *)
(***************************************************************************)
SUCC == "SUCC"
ERR_NOMEM == "ERR_NOMEM"
ERR_IDX == "ERR_IDX"
ERR_GET == "ERR_GET"
ERR_KEYSIZE == "ERR_KEYSIZE"
ERR_NODATA == "ERR_NODATA"
ERR_NOINIT == "ERR_NOINIT"
NOKEY == "NOKEY"
END == "END"
\* Not a return code: the call did not return (it dereferenced an invalid
\* pointer or accessed memory outside an allocated block).
FAULT == "FAULT"

NULL == 0
\* A pointer value that designates no object of the program.
WildPtr == -1

(***************************************************************************)
(*                              HASH MAP                                   *)
(***************************************************************************)
VARIABLES
    bEnd_, iSize_, iIdxPrime_, iCountSlot_, iIterIdx_, aSlot_, pIterNode_,
    pHash_, pDestroy_,          \* struct _HashMapData
    slotNode,                   \* the heap of SlotNode objects, by address
    iterIndet,                  \* the cursor fields never written so far
    mapFault,                   \* the process faulted inside a map call
    keySize,                    \* the key size the caller uses throughout
    mapRet,                     \* the last call: arguments and results
    refMap,                     \* the reference key -> value map
    iterSeen, iterClean,        \* pairs yielded since the last reset
    iterEnded                   \* 0 no END since reset, 1 END, 2 END then mutation

mapVars == <<bEnd_, iSize_, iIdxPrime_, iCountSlot_, iIterIdx_, aSlot_,
             pIterNode_, pHash_, pDestroy_, slotNode, iterIndet, mapFault,
             keySize, mapRet, refMap, iterSeen, iterClean, iterEnded>>

VARIABLES
    vec_iSize_, vec_iCapacity_, vec_aItem_, vec_pDestroy_,  \* struct _VectorData
    vecFault,       \* the process faulted inside a vector call
    vecRet,         \* the last call: arguments and results
    vecUndo,        \* after an insert: the position and the items before it
    vecPushed,      \* the items pushed, while only push_back was called
    vecOnlyPush     \* no call but push_back (and the accessors) was made

vecVars == <<vec_iSize_, vec_iCapacity_, vec_aItem_, vec_pDestroy_, vecFault,
             vecRet, vecUndo, vecPushed, vecOnlyPush>>

VARIABLES
    sl_pHead, sl_pTail, sl_iSize,    \* struct SinglyLinkedList
    listNode,               \* the heap of SinglyLinkedNode objects, by address
    listFault,              \* the process faulted inside a list call
    listRet                 \* the last call: arguments and results

listVars == <<sl_pHead, sl_pTail, sl_iSize, listNode, listFault, listRet>>

VARIABLES
    heapArr, heapCap,       \* the BinHeap's array: its occupied part, its capacity
    heapCompare,            \* the comparator installed
    heapRet,                \* the last call: arguments and results
    heapHeld                \* the items held, as a bag: item -> count

heapVars == <<heapArr, heapCap, heapCompare, heapRet, heapHeld>>

VARIABLES
    hnd,                    \* the handle the caller passes as self
    hndRet                  \* the last call made through it

hndVars == <<hnd, hndRet>>

VARIABLE
    teardown                \* the container a run tears down, whether Deinit
                            \* has run, and the blocks Deinit has freed

vars == <<mapVars, vecVars, listVars, heapVars, hndVars, teardown>>

\* What the calls of one container leave alone.
notMap == <<vecVars, listVars, heapVars, hndVars, teardown>>
notVec == <<mapVars, listVars, heapVars, hndVars, teardown>>
notList == <<mapVars, vecVars, heapVars, hndVars, teardown>>
notHeap == <<mapVars, vecVars, listVars, hndVars, teardown>>
notHnd == <<mapVars, vecVars, listVars, heapVars, teardown>>

aMagicPrimes == <<769, 1543, 3079, 6151, 12289, 24593, 49157, 98317, 196613,
                  393241, 786433, 1572869, 3145739, 6291469, 12582917,
                  25165843, 50331653, 100663319, 201326611, 402653189,
                  805306457, 1610612741>>

\* Keys are buffers of two bytes; the caller passes how many bytes count.
\* Under the default hash the first two share a slot when both bytes count,
\* and all three share a slot (the first two being equal) when one counts.
Keys == {<<0, 0>>, <<0, 22>>, <<89, 0>>}
Values == {1, 2}
Pairs == [key : Keys, value : Values]
NoPair == [key |-> <<>>, value |-> NULL]
\* What a read of a freed node's pPair yields: the address of no pair.
GarbagePair == [key |-> <<>>, value |-> WildPtr]
Addrs == 1..MaxNodes

\* A SlotNode; a block that is not allocated holds FreeNode.
FreeNode == [live |-> FALSE, pPair |-> NoPair, pNext |-> NULL]
SlotNode(pPair, pNext) == [live |-> TRUE, pPair |-> pPair, pNext |-> pNext]

\* Mutant of MemCmpEq: only the first byte is compared.
MemCmpEq_FirstByte(a, b, size) == a[1] = b[1]

\* memcmp(a, b, size) == 0
MemCmpEq(a, b, size) == \A i \in 1..size : a[i] = b[i]

\* The default hash: a mixing function of the first size bytes and of size.
\* The low 16 bits are kept (TLC's integers are 32 bits wide).
RECURSIVE MurMix(_, _, _)
MurMix(h, key, n) ==
    IF n = 0 THEN h
    ELSE LET t == MurMix(h, key, n - 1) + (key[n] + 1) * 40503
         IN  (t * 31 + (t \div 8) + (t % 128) * (t \div 512)) % 65536
HashMurMur32(key, size) ==
    LET h == MurMix(size * 9029, key, size)
    IN  (h * 5 + (h \div 16)) % 65536

\* A hash function the caller installs with set_hash: the first key byte.
UserHash(key, size) == key[1]

Hash(pFunc, key, size) ==
    IF pFunc = "HashMurMur32" THEN HashMurMur32(key, size)
    ELSE UserHash(key, size)

\* uiValue = pHash_(key, size) % iCountSlot_
SlotIndex(key, size) == Hash(pHash_, key, size) % iCountSlot_

\* The slot array (SlotNode *aSlot_[iCountSlot_]) is kept as the function
\* from the indices of the slots that hold a chain to the chain's head; every
\* other slot of the array holds NULL.
SlotAt(slots, s) == IF s \in DOMAIN slots THEN slots[s] ELSE NULL
SlotSet(slots, s, p) ==
    IF p = NULL
    THEN [t \in DOMAIN slots \ {s} |-> slots[t]]
    ELSE [t \in DOMAIN slots \cup {s} |-> IF t = s THEN p ELSE slots[t]]

\* The addresses of a chain, from its head, following pNext.
RECURSIVE Chain(_, _)
Chain(heap, p) ==
    IF p = NULL THEN <<>> ELSE <<p>> \o Chain(heap, heap[p].pNext)

\* The position in chain c of the first node whose key equals key on its
\* first size bytes; 0 when the walk reaches the end of the chain.
ChainFind(heap, c, key, size) ==
    LET hits == {i \in 1..Len(c) : MemCmpEq(heap[c[i]].pPair.key, key, size)}
    IN  IF hits = {} THEN 0
        ELSE CHOOSE i \in hits : \A j \in hits : i <= j

FreeAddrs == {a \in Addrs : ~slotNode[a].live}

\* malloc(sizeof(SlotNode)) when it succeeds: the lowest free block.
MallocNode == CHOOSE a \in FreeAddrs : \A b \in FreeAddrs : a <= b

\* The pairs of all chains, slot by slot.
ChainPairs(s) ==
    LET c == Chain(slotNode, SlotAt(aSlot_, s))
    IN  [i \in 1..Len(c) |-> slotNode[c[i]].pPair]
UsedSlots == DOMAIN aSlot_
StoredPairs == UNION {{ChainPairs(s)[i] : i \in 1..Len(ChainPairs(s))} : s \in UsedSlots}
CountNodes == Cardinality({a \in Addrs : slotNode[a].live})

(***************************************************************************)
(* The reference map: keys are the first keySize bytes, values 1.., 0 for  *)
(* no entry.                                                               *)
(***************************************************************************)
RefKeys == {SubSeq(k, 1, n) : k \in Keys, n \in {1, 2}}
RefKey(key, size) == SubSeq(key, 1, size)

\* nomem: the call's allocation failed.
NoRet == [op |-> "none", key |-> <<>>, size |-> 0, hasOut |-> TRUE,
          nomem |-> FALSE,
          rc |-> SUCC, out |-> NULL,
          pair |-> NoPair, reset |-> FALSE, sticky |-> FALSE,
          replaced |-> FALSE, destroyed |-> NoPair,
          refRc |-> SUCC, refOut |-> NULL]

\* HashMapInit: the state after a successful construction.  bEnd_,
\* iIterIdx_ and pIterNode_ are not written: they hold what malloc left.
MapInit ==
    /\ iSize_ = 0
    /\ iIdxPrime_ = 0
    /\ iCountSlot_ = aMagicPrimes[1]
    /\ aSlot_ = [s \in {} |-> NULL]
    /\ pHash_ = "HashMurMur32"
    /\ pDestroy_ = NULL
    /\ bEnd_ = FALSE /\ iIterIdx_ = 0 /\ pIterNode_ = NULL
    /\ iterIndet = {"bEnd_", "iIterIdx_", "pIterNode_"}
    /\ slotNode = [a \in Addrs |-> FreeNode]
    /\ mapFault = FALSE
    /\ keySize \in {1, 2}
    /\ mapRet = NoRet
    /\ refMap = [k \in RefKeys |-> 0]
    /\ iterSeen = <<>>
    /\ iterClean = FALSE
    /\ iterEnded = 0

mapConst == <<iIdxPrime_, iCountSlot_, keySize>>
mapCursor == <<bEnd_, iIterIdx_, pIterNode_, iterIndet>>
mapStore == <<iSize_, aSlot_, slotNode>>
mapFuncs == <<pHash_, pDestroy_>>
iterGhost == <<iterSeen, iterClean, iterEnded>>

\* What a mutation of the pairs does to the iteration ghosts.
IterGhostMutated ==
    /\ iterSeen' = <<>>
    /\ iterClean' = FALSE
    /\ iterEnded' = IF iterEnded = 0 THEN 0 ELSE 2

\* The reference map's answers.
RefGetRc(key, size) == IF refMap[RefKey(key, size)] = 0 THEN NOKEY ELSE SUCC
RefGetOut(key, size) == refMap[RefKey(key, size)]
RefRemoveRc(key, size) == IF refMap[RefKey(key, size)] = 0 THEN ERR_NODATA ELSE SUCC

\* pData->iSize_++ of HashMapPut's insertion.
PutSizeAfterInsert(n) == n + 1
\* HashMapPut's replacement returns without touching iSize_.
PutSizeAfterReplace(n) == n
\* HashMapRemove frees the node and returns: iSize_ is not written.
RemoveSizeAfter(n) == n

\* Mutant of PutReplace: the pair of the chain's head is overwritten.
PutReplace_Head(heap, c, hit, pPair) == [heap EXCEPT ![c[1]].pPair = pPair]

\* pCurr->pPair = pPair on the node at position hit of chain c.
PutReplace(heap, c, hit, pPair) == [heap EXCEPT ![c[hit]].pPair = pPair]

HashMapPut(pPair, size, mallocOk) ==
    /\ ~mapFault
    /\ IF size = 0
       THEN /\ mapRet' = [NoRet EXCEPT !.op = "put", !.rc = ERR_KEYSIZE,
                                       !.refRc = ERR_KEYSIZE]
            /\ UNCHANGED <<mapConst, mapCursor, mapStore, mapFuncs, mapFault,
                           refMap, iterGhost>>
       ELSE LET uiValue == SlotIndex(pPair.key, size)
                c == Chain(slotNode, SlotAt(aSlot_, uiValue))
                hit == ChainFind(slotNode, c, pPair.key, size)
                call == [NoRet EXCEPT !.op = "put", !.key = pPair.key,
                                      !.size = size, !.pair = pPair]
            IN  IF hit # 0
                THEN \* replace the pair of the conflicting node
                     /\ slotNode' = PutReplace(slotNode, c, hit, pPair)
                     /\ iSize_' = PutSizeAfterReplace(iSize_)
                     /\ mapRet' = [call EXCEPT !.replaced = TRUE,
                                     !.destroyed = IF pDestroy_ # NULL
                                                   THEN slotNode[c[hit]].pPair
                                                   ELSE NoPair]
                     /\ refMap' = [refMap EXCEPT ![RefKey(pPair.key, size)] = pPair.value]
                     /\ IterGhostMutated
                     /\ UNCHANGED <<mapConst, mapCursor, aSlot_, mapFuncs, mapFault>>
                ELSE \* insert a new node at the head of the slot list
                     /\ FreeAddrs # {}
                     /\ iSize_ < MaxPuts
                     /\ IF mallocOk
                        THEN LET pNew == MallocNode
                             IN  /\ slotNode' = [slotNode EXCEPT ![pNew] =
                                                   SlotNode(pPair, SlotAt(aSlot_, uiValue))]
                                 /\ aSlot_' = SlotSet(aSlot_, uiValue, pNew)
                                 /\ iSize_' = PutSizeAfterInsert(iSize_)
                                 /\ mapRet' = call
                                 /\ refMap' = [refMap EXCEPT ![RefKey(pPair.key, size)] = pPair.value]
                                 /\ IterGhostMutated
                                 /\ UNCHANGED <<mapConst, mapCursor, mapFuncs, mapFault>>
                        ELSE \* pNew is NULL and pNew->pPair is written
                             /\ mapFault' = TRUE
                             /\ mapRet' = [call EXCEPT !.rc = FAULT, !.refRc = FAULT,
                                                          !.nomem = TRUE]
                             /\ UNCHANGED <<mapConst, mapCursor, mapStore, mapFuncs,
                                            refMap, iterGhost>>

\* HashMapGet's walk of the slot list of key in the map (heap, slots): the
\* return code and the value stored to *pValue.
MapLookup(heap, slots, key, size) ==
    LET uiValue == Hash(pHash_, key, size) % iCountSlot_
        c == Chain(heap, SlotAt(slots, uiValue))
        hit == ChainFind(heap, c, key, size)
    IN  IF hit # 0
        THEN [rc |-> SUCC, out |-> heap[c[hit]].pPair.value]
        ELSE [rc |-> NOKEY, out |-> NULL]

\* Mutant of GetArgError: the key size is checked before the pointer.
GetArgError_SizeFirst(hasOut, size) ==
    IF size = 0 THEN ERR_KEYSIZE ELSE IF ~hasOut THEN ERR_GET ELSE SUCC

\* HashMapGet's checks of its arguments, in the order they are made: the
\* error returned, SUCC when the call goes on.
GetArgError(hasOut, size) ==
    IF ~hasOut THEN ERR_GET ELSE IF size = 0 THEN ERR_KEYSIZE ELSE SUCC

HashMapGet(key, size, hasOut) ==
    /\ ~mapFault
    /\ UNCHANGED <<mapConst, mapCursor, mapStore, mapFuncs, mapFault, refMap,
                   iterGhost>>
    /\ LET call == [NoRet EXCEPT !.op = "get", !.key = key, !.size = size,
                                 !.refRc = RefGetRc(key, size),
                                 !.refOut = RefGetOut(key, size)]
           fail == [NoRet EXCEPT !.op = "get", !.size = size,
                                 !.hasOut = hasOut]
           err == GetArgError(hasOut, size)
           found == MapLookup(slotNode, aSlot_, key, size)
       IN  IF err # SUCC
           THEN mapRet' = [fail EXCEPT !.rc = err, !.refRc = err]
           ELSE mapRet' = [call EXCEPT !.rc = found.rc, !.out = found.out]

\* Mutant of FindWalk: only the head of the slot list is compared.
FindWalk_HeadOnly(heap, pCurr, key, size) ==
    IF pCurr # NULL /\ MemCmpEq(heap[pCurr].pPair.key, key, size)
    THEN SUCC ELSE NOKEY

\* HashMapFind's loop over the slot list from pCurr: SUCC at the first node
\* whose key equals key on its first size bytes, NOKEY at the end.
RECURSIVE FindWalk(_, _, _, _)
FindWalk(heap, pCurr, key, size) ==
    IF pCurr = NULL THEN NOKEY
    ELSE IF MemCmpEq(heap[pCurr].pPair.key, key, size) THEN SUCC
    ELSE FindWalk(heap, heap[pCurr].pNext, key, size)

HashMapFind(key, size) ==
    /\ ~mapFault
    /\ UNCHANGED <<mapConst, mapCursor, mapStore, mapFuncs, mapFault, refMap,
                   iterGhost>>
    /\ IF size = 0
       THEN mapRet' = [NoRet EXCEPT !.op = "find", !.rc = ERR_KEYSIZE,
                                    !.refRc = ERR_KEYSIZE]
       ELSE LET uiValue == Hash(pHash_, key, size) % iCountSlot_
            IN  mapRet' = [NoRet EXCEPT !.op = "find", !.key = key,
                             !.size = size,
                             !.rc = FindWalk(slotNode, SlotAt(aSlot_, uiValue),
                                             key, size),
                             !.refRc = RefGetRc(key, size)]

\* aSlot[uiValue] = pCurr->pNext, or pPred->pNext = pCurr->pNext, then
\* free(pCurr), for the node at position hit of chain c.
RemoveUnlink(heap, c, hit) ==
    LET cut == [heap EXCEPT ![c[hit]] = FreeNode]
    IN  IF hit = 1 THEN cut
        ELSE [cut EXCEPT ![c[hit - 1]].pNext = heap[c[hit]].pNext]

HashMapRemove(key, size) ==
    /\ ~mapFault
    /\ IF size = 0
       THEN /\ mapRet' = [NoRet EXCEPT !.op = "remove", !.rc = ERR_KEYSIZE,
                                       !.refRc = ERR_KEYSIZE]
            /\ UNCHANGED <<mapConst, mapCursor, mapStore, mapFuncs, mapFault,
                           refMap, iterGhost>>
       ELSE LET uiValue == SlotIndex(key, size)
                c == Chain(slotNode, SlotAt(aSlot_, uiValue))
                hit == ChainFind(slotNode, c, key, size)
                call == [NoRet EXCEPT !.op = "remove", !.key = key,
                                      !.size = size,
                                      !.refRc = RefRemoveRc(key, size)]
            IN  IF hit # 0
                THEN /\ slotNode' = RemoveUnlink(slotNode, c, hit)
                     /\ aSlot_' = IF hit = 1
                                  THEN SlotSet(aSlot_, uiValue, slotNode[c[hit]].pNext)
                                  ELSE aSlot_
                     /\ iSize_' = RemoveSizeAfter(iSize_)
                     /\ mapRet' = [call EXCEPT !.rc = SUCC,
                                     !.destroyed = IF pDestroy_ # NULL
                                                   THEN slotNode[c[hit]].pPair
                                                   ELSE NoPair]
                     /\ refMap' = [refMap EXCEPT ![RefKey(key, size)] = 0]
                     /\ IterGhostMutated
                     /\ UNCHANGED <<mapConst, mapCursor, mapFuncs, mapFault>>
                ELSE /\ mapRet' = [call EXCEPT !.rc = ERR_NODATA]
                     /\ UNCHANGED <<mapConst, mapCursor, mapStore, mapFuncs,
                                    mapFault, refMap, iterGhost>>

HashMapSize ==
    /\ ~mapFault
    /\ mapRet' = [NoRet EXCEPT !.op = "size", !.out = iSize_]
    /\ UNCHANGED <<mapConst, mapCursor, mapStore, mapFuncs, mapFault, refMap,
                   iterGhost>>

\* What a read of a cursor field yields: the field's value, or, for a field
\* never written since malloc, any value the block may have held.
ReadBEnd == IF "bEnd_" \in iterIndet THEN BOOLEAN ELSE {bEnd_}
ReadIterNode == IF "pIterNode_" \in iterIndet THEN {NULL, WildPtr} ELSE {pIterNode_}
ReadIterIdx == IF "iIterIdx_" \in iterIndet THEN {-1, 769} ELSE {iIterIdx_}

\* Mutant of IterEndFlag: the end of the iteration is not recorded.
IterEndFlag_Unset == FALSE

\* pData->bEnd_ = true: the flag stored when the slots are exhausted.
IterEndFlag == TRUE

IterResult(rc, pair, bEnd, idx, node, read) ==
    [rc |-> rc, pair |-> pair, bEnd |-> bEnd, idx |-> idx, node |-> node,
     read |-> read]

\* The outcomes of HashMapIterate(self, false, ppPair) when bEnd_ reads b,
\* pIterNode_ reads p and iIterIdx_ reads i.
IterOutcomes(b, p, i) ==
    IF b
    THEN {IterResult(END, NoPair, TRUE, iIterIdx_, pIterNode_, {"bEnd_"})}
    ELSE IF p # NULL
    THEN \* the inner while: *ppPair = pIterNode_->pPair and step to pNext
         IF p \in Addrs /\ slotNode[p].live
         THEN {IterResult(SUCC, slotNode[p].pPair, FALSE, iIterIdx_,
                          slotNode[p].pNext, {"bEnd_", "pIterNode_"})}
         ELSE \* p designates no node, or a freed one: the read is undefined
              {IterResult(FAULT, NoPair, FALSE, iIterIdx_, p,
                          {"bEnd_", "pIterNode_"})}
              \cup (IF p \in Addrs
                    THEN {IterResult(SUCC, GarbagePair, FALSE, iIterIdx_, n,
                                     {"bEnd_", "pIterNode_"}) :
                          n \in {NULL, WildPtr}}
                    ELSE {})
    ELSE \* iIterIdx_++ until a slot with a node, or iIterIdx_ == iCountSlot_
         LET all == {"bEnd_", "pIterNode_", "iIterIdx_"}
             rest == {j \in DOMAIN aSlot_ : j >= i + 1}
             next == CHOOSE j \in rest : \A k \in rest : j <= k
         IN  IF i + 1 = iCountSlot_
             THEN {IterResult(END, NoPair, IterEndFlag, iCountSlot_, NULL, all)}
             ELSE IF i + 1 < 0 \/ i + 1 > iCountSlot_
             THEN \* aSlot[iIterIdx_] is read outside the array
                  {IterResult(FAULT, NoPair, FALSE, i, NULL, all)}
             ELSE IF rest = {}
             THEN {IterResult(END, NoPair, IterEndFlag, iCountSlot_, NULL, all)}
             ELSE {IterResult(SUCC, slotNode[SlotAt(aSlot_, next)].pPair, FALSE, next,
                              slotNode[SlotAt(aSlot_, next)].pNext, all)}

HashMapIterate(bReset, hasOut) ==
    /\ ~mapFault
    /\ UNCHANGED <<mapConst, mapStore, mapFuncs, refMap>>
    /\ LET call == [NoRet EXCEPT !.op = "iterate", !.reset = bReset]
       IN  IF bReset
           THEN /\ iIterIdx_' = 0
                /\ pIterNode_' = SlotAt(aSlot_, 0)
                /\ bEnd_' = FALSE
                /\ iterIndet' = {}
                /\ mapRet' = call
                /\ iterSeen' = <<>>
                /\ iterClean' = TRUE
                /\ iterEnded' = 0
                /\ UNCHANGED mapFault
           ELSE IF ~hasOut
           THEN /\ mapRet' = [call EXCEPT !.rc = ERR_GET]
                /\ UNCHANGED <<mapCursor, mapFault, iterGhost>>
           ELSE \E b \in ReadBEnd, p \in ReadIterNode, i \in ReadIterIdx :
                  \E r \in IterOutcomes(b, p, i) :
                    /\ mapRet' = [call EXCEPT !.rc = r.rc, !.pair = r.pair,
                                              !.sticky = (iterEnded # 0)]
                    /\ mapFault' = (r.rc = FAULT)
                    /\ bEnd_' = r.bEnd
                    /\ iIterIdx_' = r.idx
                    /\ pIterNode_' = r.node
                    /\ iterIndet' = iterIndet \ r.read
                    /\ iterSeen' = IF iterClean /\ r.rc = SUCC
                                   THEN Append(iterSeen, r.pair) ELSE iterSeen
                    /\ iterClean' = iterClean
                    /\ iterEnded' = IF r.rc = END /\ iterEnded = 0 THEN 1
                                    ELSE iterEnded

HashMapSetHash(pFunc) ==
    /\ ~mapFault
    /\ pHash_' = pFunc
    /\ mapRet' = [NoRet EXCEPT !.op = "set_hash"]
    /\ UNCHANGED <<mapConst, mapCursor, mapStore, pDestroy_, mapFault, refMap,
                   iterGhost>>

(***************************************************************************)
(*                     CLAIMS ABOUT THE HASH MAP                           *)
(***************************************************************************)
RECURSIVE SumLen(_)
SumLen(S) ==
    IF S = {} THEN 0
    ELSE LET s == CHOOSE x \in S : TRUE
         IN  Len(ChainPairs(s)) + SumLen(S \ {s})
\* The number of pairs stored across all chains.
PairCount == SumLen(UsedSlots)

\* C1: after any sequence of put and remove calls, size() (iSize_) equals
\* the number of pairs stored across all chains; a successful remove
\* decrements it by one.
C1_SizeIsPairCount == iSize_ = PairCount

\* C2: the map behaves as the reference key -> value map: every get and
\* remove returns what the reference map returns (SUCC with the latest value,
\* NOKEY with NULL, ERR_NODATA for an absent key), and in every state the
\* lookup of every key agrees with the reference map, so that a put or a
\* remove of one key leaves the answers for the others as they were.
C2_MapRefinesReference ==
    /\ mapRet.op \in {"get", "remove"} =>
         /\ mapRet.rc = mapRet.refRc
         /\ mapRet.out = mapRet.refOut
    /\ \A k \in Keys :
         MapLookup(slotNode, aSlot_, k, keySize) =
           [rc |-> IF refMap[RefKey(k, keySize)] = 0 THEN NOKEY ELSE SUCC,
            out |-> refMap[RefKey(k, keySize)]]

\* A get returned the value 2 of a stored key, after a remove, while the
\* lookup of some key finds nothing.
C2_Witness ==
    /\ mapRet.op = "get" /\ mapRet.rc = SUCC /\ mapRet.out = 2
    /\ iSize_ > PairCount
    /\ \E k \in Keys : MapLookup(slotNode, aSlot_, k, keySize).rc = NOKEY

\* C3: a put whose key is byte-equal to a stored key replaces that pair in
\* place: iSize_ is unchanged, the chain of the key keeps its nodes in their
\* order, only the node of the key gets the new pair, and a get of the key
\* now returns the new value.
C3_PutReplacesInPlace ==
    [][(mapRet'.op = "put" /\ mapRet'.replaced) =>
         LET pPair == mapRet'.pair
             size == mapRet'.size
             uiValue == SlotIndex(pPair.key, size)
             c == Chain(slotNode, SlotAt(aSlot_, uiValue))
         IN  /\ iSize_' = iSize_
             /\ aSlot_' = aSlot_
             /\ Chain(slotNode', SlotAt(aSlot_', uiValue)) = c
             /\ \E h \in 1..Len(c) :
                  /\ MemCmpEq(slotNode[c[h]].pPair.key, pPair.key, size)
                  /\ \A i \in 1..Len(c) :
                       slotNode'[c[i]].pPair =
                         IF i = h THEN pPair ELSE slotNode[c[i]].pPair
             /\ \A a \in Addrs \ {c[i] : i \in 1..Len(c)} :
                  slotNode'[a] = slotNode[a]
             /\ MapLookup(slotNode', aSlot_', pPair.key, size) =
                  [rc |-> SUCC, out |-> pPair.value]
      ]_vars

\* A put has replaced the pair of the second node of a chain of two.
C3_Witness ==
    /\ mapRet.op = "put" /\ mapRet.replaced
    /\ \E s \in UsedSlots :
         /\ Len(ChainPairs(s)) = 2
         /\ ChainPairs(s)[2] = mapRet.pair
         /\ ChainPairs(s)[1].key # mapRet.pair.key

\* C4: iterate(reset=true) followed by iterate(reset=false) until END, with
\* no mutation in between, yields exactly size() pairs, each stored pair
\* exactly once.
C4_IterateYieldsSizePairs ==
    (iterClean /\ mapRet.op = "iterate" /\ ~mapRet.reset /\ mapRet.rc = END) =>
        /\ Len(iterSeen) = iSize_
        /\ {iterSeen[i] : i \in 1..Len(iterSeen)} = StoredPairs
        /\ \A i, j \in 1..Len(iterSeen) : iterSeen[i] = iterSeen[j] => i = j

\* C5: once iterate(reset=false) has returned END, every later
\* iterate(reset=false) returns END with the output pair set to NULL,
\* whatever put and remove calls happen in between, until a reset.
C5_EndIsSticky ==
    (mapRet.op = "iterate" /\ ~mapRet.reset /\ mapRet.sticky) =>
        /\ mapRet.rc = END
        /\ mapRet.pair = NoPair

\* After a reset, an iteration to END and a later put or remove, iterate
\* returned END again, with a pair stored.
C5_Witness ==
    /\ mapRet.op = "iterate" /\ ~mapRet.reset /\ mapRet.sticky
    /\ mapRet.rc = END
    /\ iterIndet = {}
    /\ iterEnded = 2
    /\ PairCount > 0

(***************************************************************************)
(*                               VECTOR                                    *)
(***************************************************************************)
\* The largest capacity a run asks for (the doubling stops there).
MaxCap == 4

DEFAULT_CAPACITY == 1

Items == {1, 2}
\* What a slot holds that was never written (malloc and realloc leave it).
GarbageItem == WildPtr

\* aItem_[i] and aItem_[i] = v on a block of Len(a) slots; outside the block
\* the read yields anything and the write lands elsewhere.
VecRd(a, i) == IF i + 1 \in 1..Len(a) THEN a[i + 1] ELSE GarbageItem
VecWr(a, i, v) == IF i + 1 \in 1..Len(a) THEN [a EXCEPT ![i + 1] = v] ELSE a

\* Mutant of VecRealloc: a fresh block, the old contents not copied.
VecRealloc_Fresh(a, n) == [j \in 1..n |-> GarbageItem]

\* realloc(aItem_, n * sizeof(Item)) when it succeeds.
VecRealloc(a, n) == [j \in 1..n |-> IF j <= Len(a) THEN a[j] ELSE GarbageItem]

\* The items _VectorReisze passes to pDestroy_, in order: aItem_[n] up to
\* aItem_[size - 1].
ResizeDestroyed(a, size, n) == [k \in 1..(size - n) |-> VecRd(a, n + k - 1)]

\* _VectorReisze(pData, iSizeNew, bClean), realloc succeeding or not.
VecReisze(size, a, iSizeNew, bClean, reallocOk) ==
    LET cut == (iSizeNew < size) /\ bClean
    IN  [size |-> IF cut THEN iSizeNew ELSE size,
         destroyed |-> IF cut THEN ResizeDestroyed(a, size, iSizeNew) ELSE <<>>,
         oob |-> cut /\ size > Len(a),
         items |-> IF reallocOk THEN VecRealloc(a, iSizeNew) ELSE a,
         cap |-> IF reallocOk THEN iSizeNew ELSE Len(a),
         rc |-> IF reallocOk THEN SUCC ELSE ERR_NOMEM]

\* memmove(aItem + iIdx + 1, aItem + iIdx, sizeof(Item) * (size - iIdx))
ShiftRight(a, iIdx, size) ==
    [j \in 1..Len(a) |->
        IF j - 1 > iIdx /\ j - 1 <= size THEN VecRd(a, j - 2) ELSE a[j]]

\* memmove(aItem + iIdx, aItem + iIdx + 1, sizeof(Item) * (size - iIdx - 1))
ShiftLeft(a, iIdx, size) ==
    [j \in 1..Len(a) |->
        IF j - 1 >= iIdx /\ j - 1 < size - 1 THEN VecRd(a, j) ELSE a[j]]

\* VectorGet(self, pItem, iIdx) on a vector of size items a.
VecGet(size, a, iIdx) ==
    IF iIdx < 0 \/ iIdx >= size
    THEN [rc |-> ERR_IDX, out |-> NULL]
    ELSE [rc |-> SUCC, out |-> VecRd(a, iIdx)]

NoVecRet == [op |-> "none", item |-> NULL, idx |-> 0, n |-> 0, clean |-> FALSE,
             nomem |-> FALSE,
             rc |-> SUCC, out |-> NULL, destroyed |-> <<>>, grew |-> FALSE,
             undoes |-> FALSE, want |-> <<>>]
NoUndo == [set |-> FALSE, idx |-> 0, items |-> <<>>]

\* The first size items, as VectorGet returns them.
VecItems(size, a) == [j \in 1..size |-> VecGet(size, a, j - 1).out]

\* VectorInit: the state after a successful construction.
VecInit ==
    /\ vec_iSize_ = 0
    /\ vec_iCapacity_ = DEFAULT_CAPACITY
    /\ vec_aItem_ = [j \in 1..DEFAULT_CAPACITY |-> GarbageItem]
    /\ vec_pDestroy_ = "_VectorItemDestroy"
    /\ vecFault = FALSE
    /\ vecRet = NoVecRet
    /\ vecUndo = NoUndo
    /\ vecPushed = <<>>
    /\ vecOnlyPush = TRUE

\* The outcomes of a call that reads or writes outside the block (oob): it
\* faults, or it goes on with what the access happened to do.
VecOutcomes(oob) == IF oob THEN {"fault", "goes on"} ELSE {"defined"}

VecFaulted(call) ==
    /\ vecFault' = TRUE
    /\ vecRet' = [call EXCEPT !.rc = FAULT]
    /\ vecUndo' = NoUndo
    /\ UNCHANGED <<vec_iSize_, vec_iCapacity_, vec_aItem_, vec_pDestroy_,
                   vecPushed, vecOnlyPush>>

\* A call that fails or only reads leaves the vector as it is.
VecReturns(ret) ==
    /\ vecRet' = ret
    /\ vecUndo' = NoUndo
    /\ UNCHANGED <<vec_iSize_, vec_iCapacity_, vec_aItem_, vec_pDestroy_,
                   vecFault, vecPushed, vecOnlyPush>>

VecMutated ==
    /\ vecPushed' = <<>>
    /\ vecOnlyPush' = FALSE

VectorPushBack(item, reallocOk) ==
    /\ ~vecFault
    /\ vec_iSize_ < MaxCap
    /\ LET call == [NoVecRet EXCEPT !.op = "push_back", !.item = item]
           full == vec_iSize_ = vec_iCapacity_
           r == VecReisze(vec_iSize_, vec_aItem_, vec_iCapacity_ * 2, FALSE, reallocOk)
           a == IF full THEN r.items ELSE vec_aItem_
       IN  /\ full => vec_iCapacity_ * 2 <= MaxCap
           /\ IF full /\ r.rc # SUCC
              THEN VecReturns([call EXCEPT !.rc = r.rc, !.nomem = TRUE])
              ELSE \E ub \in VecOutcomes(vec_iSize_ >= Len(a)) :
                     IF ub = "fault" THEN VecFaulted(call)
                     ELSE /\ vec_aItem_' = VecWr(a, vec_iSize_, item)
                          /\ vec_iCapacity_' = Len(a)
                          /\ vec_iSize_' = vec_iSize_ + 1
                          /\ vecRet' = [call EXCEPT !.grew = full]
                          /\ vecUndo' = NoUndo
                          /\ vecPushed' = IF vecOnlyPush THEN Append(vecPushed, item)
                                          ELSE vecPushed
                          /\ UNCHANGED <<vec_pDestroy_, vecFault, vecOnlyPush>>

VectorInsert(item, iIdx, reallocOk) ==
    /\ ~vecFault
    /\ vec_iSize_ < MaxCap
    /\ LET call == [NoVecRet EXCEPT !.op = "insert", !.item = item, !.idx = iIdx]
           full == vec_iSize_ = vec_iCapacity_
           r == VecReisze(vec_iSize_, vec_aItem_, vec_iCapacity_ * 2, FALSE, reallocOk)
           a == IF full THEN r.items ELSE vec_aItem_
       IN  IF iIdx < 0 \/ iIdx > vec_iSize_
           THEN VecReturns([call EXCEPT !.rc = ERR_IDX])
           ELSE /\ full => vec_iCapacity_ * 2 <= MaxCap
                /\ IF full /\ r.rc # SUCC
                   THEN VecReturns([call EXCEPT !.rc = r.rc, !.nomem = TRUE])
                   ELSE \E ub \in VecOutcomes(vec_iSize_ >= Len(a)) :
                          IF ub = "fault" THEN VecFaulted(call)
                          ELSE /\ vec_aItem_' = VecWr(ShiftRight(a, iIdx, vec_iSize_),
                                                      iIdx, item)
                               /\ vec_iCapacity_' = Len(a)
                               /\ vec_iSize_' = vec_iSize_ + 1
                               /\ vecRet' = [call EXCEPT !.grew = full]
                               /\ vecUndo' = [set |-> TRUE,
                                            idx |-> iIdx,
                                            items |-> VecItems(vec_iSize_, vec_aItem_)]
                               /\ VecMutated
                               /\ UNCHANGED <<vec_pDestroy_, vecFault>>

VectorPopBack(bClean) ==
    /\ ~vecFault
    /\ LET call == [NoVecRet EXCEPT !.op = "pop_back", !.clean = bClean]
       IN  IF vec_iSize_ = 0
           THEN VecReturns([call EXCEPT !.rc = ERR_IDX])
           ELSE \E ub \in VecOutcomes(bClean /\ vec_iSize_ - 1 >= Len(vec_aItem_)) :
                  IF ub = "fault" THEN VecFaulted(call)
                  ELSE /\ vec_iSize_' = vec_iSize_ - 1
                       /\ vecRet' = [call EXCEPT !.destroyed =
                                       IF bClean
                                       THEN <<VecRd(vec_aItem_, vec_iSize_ - 1)>>
                                       ELSE <<>>]
                       /\ vecUndo' = NoUndo
                       /\ VecMutated
                       /\ UNCHANGED <<vec_iCapacity_, vec_aItem_, vec_pDestroy_,
                                      vecFault>>

VectorDelete(iIdx, bClean) ==
    /\ ~vecFault
    /\ LET undoes == vecUndo.set /\ vecUndo.idx = iIdx /\ ~bClean
           call == [NoVecRet EXCEPT !.op = "delete", !.idx = iIdx, !.clean = bClean,
                                    !.undoes = undoes,
                                    !.want = IF undoes THEN vecUndo.items ELSE <<>>]
       IN  IF iIdx < 0 \/ iIdx >= vec_iSize_
           THEN VecReturns([call EXCEPT !.rc = ERR_IDX])
           ELSE \E ub \in VecOutcomes(vec_iSize_ > Len(vec_aItem_)) :
                  IF ub = "fault" THEN VecFaulted(call)
                  ELSE /\ vec_aItem_' = ShiftLeft(vec_aItem_, iIdx, vec_iSize_)
                       /\ vec_iSize_' = vec_iSize_ - 1
                       /\ vecRet' = [call EXCEPT
                                       !.destroyed = IF bClean
                                                     THEN <<VecRd(vec_aItem_, iIdx)>>
                                                     ELSE <<>>]
                       /\ vecUndo' = NoUndo
                       /\ VecMutated
                       /\ UNCHANGED <<vec_iCapacity_, vec_pDestroy_, vecFault>>

\* The designated capacity is greater than zero (the note of _VectorReisze).
VectorResize(iSize, bClean, reallocOk) ==
    /\ ~vecFault
    /\ LET call == [NoVecRet EXCEPT !.op = "resize", !.n = iSize, !.clean = bClean]
           r == VecReisze(vec_iSize_, vec_aItem_, iSize, bClean, reallocOk)
       IN  \E ub \in VecOutcomes(r.oob) :
             IF ub = "fault" THEN VecFaulted(call)
             ELSE /\ vec_iSize_' = r.size
                  /\ vec_aItem_' = r.items
                  /\ vec_iCapacity_' = r.cap
                  /\ vecRet' = [call EXCEPT !.rc = r.rc, !.destroyed = r.destroyed]
                  /\ vecUndo' = NoUndo
                  /\ VecMutated
                  /\ UNCHANGED <<vec_pDestroy_, vecFault>>

VectorSize ==
    /\ ~vecFault
    /\ VecReturns([NoVecRet EXCEPT !.op = "size", !.out = vec_iSize_])

VectorCapacity ==
    /\ ~vecFault
    /\ VecReturns([NoVecRet EXCEPT !.op = "capacity", !.out = vec_iCapacity_])

VectorSet(item, iIdx, bClean) ==
    /\ ~vecFault
    /\ LET call == [NoVecRet EXCEPT !.op = "set", !.item = item, !.idx = iIdx,
                                    !.clean = bClean]
       IN  IF iIdx < 0 \/ iIdx >= vec_iSize_
           THEN VecReturns([call EXCEPT !.rc = ERR_IDX])
           ELSE \E ub \in VecOutcomes(iIdx >= Len(vec_aItem_)) :
                  IF ub = "fault" THEN VecFaulted(call)
                  ELSE /\ vec_aItem_' = VecWr(vec_aItem_, iIdx, item)
                       /\ vecRet' = [call EXCEPT !.destroyed =
                                       IF bClean THEN <<VecRd(vec_aItem_, iIdx)>>
                                       ELSE <<>>]
                       /\ vecUndo' = NoUndo
                       /\ VecMutated
                       /\ UNCHANGED <<vec_iSize_, vec_iCapacity_, vec_pDestroy_,
                                      vecFault>>

VectorGet(iIdx) ==
    /\ ~vecFault
    /\ LET call == [NoVecRet EXCEPT !.op = "get", !.idx = iIdx]
           r == VecGet(vec_iSize_, vec_aItem_, iIdx)
       IN  \E ub \in VecOutcomes(r.rc = SUCC /\ iIdx >= Len(vec_aItem_)) :
             IF ub = "fault" THEN VecFaulted(call)
             ELSE VecReturns([call EXCEPT !.rc = r.rc, !.out = r.out])

(***************************************************************************)
(*                         SINGLY LINKED LIST                              *)
(***************************************************************************)
\* The number of SinglyLinkedNode addresses malloc can hand out.
MaxListNodes == 3

ListAddrs == 1..MaxListNodes
ListItems == {1, 2}

FreeListNode == [live |-> FALSE, pItem |-> NULL, pNext |-> NULL]
ListNode(pItem, pNext) == [live |-> TRUE, pItem |-> pItem, pNext |-> pNext]

\* The addresses malloc may return.
ListFree(heap) == {a \in ListAddrs : ~heap[a].live}

\* _SLListCompare: the items are compared as primitive values.
SLListCompare(pSrc, pTge) ==
    IF pSrc = pTge THEN 0 ELSE IF pSrc > pTge THEN 1 ELSE -1

\* The nodes reachable from sl_pHead through pNext, and their items.
ListChain == Chain(listNode, sl_pHead)
ListItemsOf(heap, head) ==
    LET c == Chain(heap, head) IN [i \in 1..Len(c) |-> heap[c[i]].pItem]
ListSeq == ListItemsOf(listNode, sl_pHead)

NoListRet == [op |-> "none", item |-> NULL, idx |-> 0, out |-> NULL,
              nomem |-> FALSE,
              found |-> FALSE, fault |-> FALSE, before |-> <<>>,
              twice |-> FALSE, want |-> <<>>, appended |-> FALSE]

\* SLListInit
ListInit ==
    /\ sl_pHead = NULL
    /\ sl_pTail = NULL
    /\ sl_iSize = 0
    /\ listNode = [a \in ListAddrs |-> FreeListNode]
    /\ listFault = FALSE
    /\ listRet = NoListRet

\* A call that dereferences NULL, or that the write through a dangling
\* pointer brings down.
ListFaulted(call) ==
    /\ listFault' = TRUE
    /\ listRet' = [call EXCEPT !.fault = TRUE]
    /\ UNCHANGED <<sl_pHead, sl_pTail, sl_iSize, listNode>>

\* A call that leaves the list as it is.
ListReturns(ret) ==
    /\ listRet' = ret
    /\ UNCHANGED <<sl_pHead, sl_pTail, sl_iSize, listNode, listFault>>

\* The outcomes of the write pTail->pNext = new on the heap in which new
\* has been initialised: pTail may point to a node that was freed.
TailWriteOutcomes(heap) ==
    IF heap[sl_pTail].live THEN {"defined"} ELSE {"fault", "goes on"}

SLListAppend(pItem, new) ==
    /\ ~listFault
    /\ LET call == [NoListRet EXCEPT !.op = "append", !.item = pItem]
           heap1 == [listNode EXCEPT ![new] = ListNode(pItem, NULL)]
       IN  IF new = NULL
           THEN ListReturns([call EXCEPT !.nomem = TRUE])
           ELSE IF sl_pHead = NULL
           THEN /\ listNode' = heap1
                /\ sl_pHead' = new
                /\ sl_pTail' = new
                /\ sl_iSize' = sl_iSize + 1
                /\ listRet' = [call EXCEPT !.out = new]
                /\ UNCHANGED listFault
           ELSE IF sl_pTail = NULL
           THEN ListFaulted(call)
           ELSE \E ub \in TailWriteOutcomes(heap1) :
                  IF ub = "fault" THEN ListFaulted(call)
                  ELSE /\ listNode' = IF heap1[sl_pTail].live
                                      THEN [heap1 EXCEPT ![sl_pTail].pNext = new]
                                      ELSE heap1
                       /\ sl_pTail' = new
                       /\ sl_iSize' = sl_iSize + 1
                       /\ listRet' = [call EXCEPT !.out = new]
                       /\ UNCHANGED <<sl_pHead, listFault>>

SLListInsert(idx, pItem, new) ==
    /\ ~listFault
    /\ LET call == [NoListRet EXCEPT !.op = "insert", !.item = pItem, !.idx = idx]
           c == ListChain
           succ == IF idx < Len(c) THEN c[idx + 1] ELSE NULL
           linked == [listNode EXCEPT ![new] = ListNode(pItem, succ)]
       IN  IF idx > sl_iSize
           THEN ListReturns(call)
           ELSE IF idx > Len(c)
           THEN ListFaulted(call)      \* succ->pNext with succ = NULL
           ELSE IF new = NULL
           THEN ListReturns([call EXCEPT !.nomem = TRUE])
           ELSE /\ listNode' = IF idx > 0
                               THEN [linked EXCEPT ![c[idx]].pNext = new]
                               ELSE linked
                /\ sl_pHead' = IF idx > 0 THEN sl_pHead ELSE new
                /\ sl_iSize' = sl_iSize + 1
                /\ listRet' = [call EXCEPT !.out = new]
                /\ UNCHANGED <<sl_pTail, listFault>>

\* free(curr) and the relinking of its predecessor, for the node at
\* position i of the chain c.
ListUnlink(heap, c, i) ==
    LET cut == [heap EXCEPT ![c[i]] = FreeListNode]
    IN  IF i = 1 THEN cut
        ELSE [cut EXCEPT ![c[i - 1]].pNext = heap[c[i]].pNext]

\* The position of the first node of chain c whose item compares equal to
\* pItem; 0 when there is none.
ListFind(heap, c, pItem) ==
    LET hits == {i \in 1..Len(c) : SLListCompare(pItem, heap[c[i]].pItem) = 0}
    IN  IF hits = {} THEN 0
        ELSE CHOOSE i \in hits : \A j \in hits : i <= j

SLListRemove(pItem) ==
    /\ ~listFault
    /\ LET call == [NoListRet EXCEPT !.op = "remove", !.item = pItem]
           c == ListChain
           hit == ListFind(listNode, c, pItem)
       IN  IF hit = 0
           THEN ListReturns(call)
           ELSE /\ listNode' = ListUnlink(listNode, c, hit)
                /\ sl_pHead' = IF hit = 1 THEN listNode[c[1]].pNext ELSE sl_pHead
                /\ sl_iSize' = sl_iSize - 1
                /\ listRet' = [call EXCEPT !.out = listNode[c[hit]].pItem]
                /\ UNCHANGED <<sl_pTail, listFault>>

SLListPop(idx) ==
    /\ ~listFault
    /\ LET call == [NoListRet EXCEPT !.op = "pop", !.idx = idx]
           c == ListChain
       IN  IF ~(idx < sl_iSize)
           THEN ListReturns(call)
           ELSE IF idx >= Len(c)
           THEN ListFaulted(call)      \* curr->pNext or curr->pItem with curr = NULL
           ELSE /\ listNode' = ListUnlink(listNode, c, idx + 1)
                /\ sl_pHead' = IF idx = 0 THEN listNode[c[1]].pNext ELSE sl_pHead
                /\ sl_iSize' = sl_iSize - 1
                /\ listRet' = [call EXCEPT !.out = listNode[c[idx + 1]].pItem]
                /\ UNCHANGED <<sl_pTail, listFault>>

SLListSearch(pItem) ==
    /\ ~listFault
    /\ ListReturns([NoListRet EXCEPT
         !.op = "search", !.item = pItem,
         !.found = ListFind(listNode, ListChain, pItem) # 0,
         !.appended = /\ listRet.op = "append"
                      /\ listRet.out # NULL
                      /\ listRet.item = pItem])

\* The loop of SLListReverse over the chain c: each node's pNext is set to
\* its predecessor, NULL for the first.
ReverseLinks(heap, c) ==
    [a \in DOMAIN heap |->
        IF \E i \in 1..Len(c) : c[i] = a
        THEN LET i == CHOOSE k \in 1..Len(c) : c[k] = a
             IN  [heap[a] EXCEPT !.pNext = IF i = 1 THEN NULL ELSE c[i - 1]]
        ELSE heap[a]]

\* Mutant of ReverseHead: the head is left as the loop left it.
ReverseHead_Null(c) == NULL

\* self->pHead = pred after the loop: the last node of the chain c.
ReverseHead(c) == IF c = <<>> THEN NULL ELSE c[Len(c)]

SLListReverse ==
    /\ ~listFault
    /\ LET c == ListChain
           twice == listRet.op = "reverse"
       IN  /\ listNode' = ReverseLinks(listNode, c)
           /\ sl_pHead' = ReverseHead(c)
           /\ listRet' = [NoListRet EXCEPT !.op = "reverse", !.before = ListSeq,
                                           !.idx = sl_iSize,
                                           !.twice = twice,
                                           !.want = IF twice THEN listRet.before
                                                    ELSE <<>>]
           /\ UNCHANGED <<sl_pTail, sl_iSize, listFault>>

(***************************************************************************)
(*                            BINARY HEAP                                  *)
(* binary_heap.h declares the operations; their bodies are modelled from   *)
(* the design: an array-backed binary tree, push appends and sifts up, pop *)
(* moves the last item to the root and sifts down.                         *)
(***************************************************************************)
\* The largest number of items a run holds in the heap.
MaxHeap == 4

HeapItems == {1, 3, 5, 8}

\* The comparators: the default orders the items as primitive values, the
\* reversed one makes a max-heap.
BinHeapCompare(pFunc, a, b) ==
    LET d == IF a = b THEN 0 ELSE IF a < b THEN -1 ELSE 1
    IN  IF pFunc = "default" THEN d ELSE 0 - d

Swap(a, i, j) == [a EXCEPT ![i] = a[j], ![j] = a[i]]

\* push: the item at position i is swapped with its parent while it
\* precedes the parent.
RECURSIVE SiftUp(_, _, _)
SiftUp(pFunc, a, i) ==
    IF i > 1 /\ BinHeapCompare(pFunc, a[i], a[i \div 2]) < 0
    THEN SiftUp(pFunc, Swap(a, i, i \div 2), i \div 2)
    ELSE a

\* The child of position i that precedes the other; 0 without children.
FirstChild(pFunc, a, i) ==
    IF 2 * i > Len(a) THEN 0
    ELSE IF 2 * i + 1 > Len(a) THEN 2 * i
    ELSE IF BinHeapCompare(pFunc, a[2 * i + 1], a[2 * i]) < 0 THEN 2 * i + 1
    ELSE 2 * i

\* Mutant of SiftDown: the item moved to the root stays there.
SiftDown_None(pFunc, a, i) == a

\* pop: the item at position i is swapped with its higher-priority child
\* while that child precedes it.
RECURSIVE SiftDown(_, _, _)
SiftDown(pFunc, a, i) ==
    LET c == FirstChild(pFunc, a, i)
    IN  IF c # 0 /\ BinHeapCompare(pFunc, a[c], a[i]) < 0
        THEN SiftDown(pFunc, Swap(a, i, c), c)
        ELSE a

\* The array after the root is replaced by the last item and the size shrunk.
RootReplaced(a) ==
    IF Len(a) <= 1 THEN <<>>
    ELSE [j \in 1..(Len(a) - 1) |-> IF j = 1 THEN a[Len(a)] ELSE a[j]]

NoHeapRet == [op |-> "none", item |-> NULL, clean |-> FALSE, rc |-> SUCC,
              out |-> NULL, destroyed |-> <<>>]

\* BinHeapInit, and the comparator the caller installs before any push.
HeapInit ==
    /\ heapArr = <<>>
    /\ heapCap = DEFAULT_CAPACITY
    /\ heapCompare \in {"default", "reversed"}
    /\ heapRet = NoHeapRet
    /\ heapHeld = [x \in HeapItems |-> 0]

BinHeapPush(item, reallocOk) ==
    /\ Len(heapArr) < MaxHeap
    /\ LET call == [NoHeapRet EXCEPT !.op = "push", !.item = item]
           full == Len(heapArr) = heapCap
       IN  IF full /\ ~reallocOk
           THEN /\ heapRet' = [call EXCEPT !.rc = ERR_NOMEM]
                /\ UNCHANGED <<heapArr, heapCap, heapCompare, heapHeld>>
           ELSE /\ heapArr' = SiftUp(heapCompare, Append(heapArr, item),
                                     Len(heapArr) + 1)
                /\ heapCap' = IF full THEN heapCap * 2 ELSE heapCap
                /\ heapRet' = call
                /\ heapHeld' = [heapHeld EXCEPT ![item] = @ + 1]
                /\ UNCHANGED heapCompare

BinHeapPop(bClean) ==
    LET call == [NoHeapRet EXCEPT !.op = "pop", !.clean = bClean]
    IN  IF heapArr = <<>>
        THEN /\ heapRet' = [call EXCEPT !.rc = ERR_IDX]
             /\ UNCHANGED <<heapArr, heapCap, heapCompare, heapHeld>>
        ELSE /\ heapArr' = SiftDown(heapCompare, RootReplaced(heapArr), 1)
             /\ heapRet' = [call EXCEPT !.item = heapArr[1],
                              !.destroyed = IF bClean THEN <<heapArr[1]>> ELSE <<>>]
             /\ heapHeld' = [heapHeld EXCEPT ![heapArr[1]] = @ - 1]
             /\ UNCHANGED <<heapCap, heapCompare>>

\* top on the array a: the return code and the item stored to *pItem.
HeapTop(a) ==
    IF a = <<>> THEN [rc |-> ERR_IDX, out |-> NULL]
    ELSE [rc |-> SUCC, out |-> a[1]]

BinHeapTop ==
    /\ heapRet' = [NoHeapRet EXCEPT !.op = "top", !.rc = HeapTop(heapArr).rc,
                                    !.out = HeapTop(heapArr).out]
    /\ UNCHANGED <<heapArr, heapCap, heapCompare, heapHeld>>

BinHeapSize ==
    /\ heapRet' = [NoHeapRet EXCEPT !.op = "size", !.out = Len(heapArr)]
    /\ UNCHANGED <<heapArr, heapCap, heapCompare, heapHeld>>

(***************************************************************************)
(*                              HANDLES                                    *)
(* What a Vector or HashMap function does with the handle it is given,     *)
(* before its body: the handle (self), its private data (self->pData) and  *)
(* the backing array (aItem_, aSlot_) are each NULL or set.                *)
(***************************************************************************)
Handle(obj, self, pData, arr) ==
    [obj |-> obj, self |-> self, pData |-> pData, arr |-> arr]

\* The handles a caller can pass: the constructed container, NULL (what a
\* failed Init and Deinit leave in *ppObj), and an object that is only
\* partly built (pData NULL, or pData set and the array NULL).
Handles ==
    {Handle(obj, TRUE, TRUE, TRUE) : obj \in {"Vector", "HashMap"}} \cup
    {Handle(obj, FALSE, FALSE, FALSE) : obj \in {"Vector", "HashMap"}} \cup
    {Handle(obj, TRUE, FALSE, FALSE) : obj \in {"Vector", "HashMap"}} \cup
    {Handle(obj, TRUE, TRUE, FALSE) : obj \in {"Vector", "HashMap"}}

HandleReady(h) == h.self /\ h.pData /\ h.arr

\* What a function returns when it reads a field nobody wrote.
WildRc == "indeterminate"

VecOps == {"push_back", "insert", "pop_back", "delete", "resize", "size",
           "capacity", "set", "get", "set_destroy"}
\* The Vector functions whose body reads or writes aItem_[...].
VecArrayOps == {"push_back", "insert", "delete", "set", "get"}
MapOps == {"put", "get", "find", "remove", "size", "iterate", "set_destroy",
           "set_hash"}

\* CHECK_INIT(self): the code returned, SUCC when the body is entered.
CHECK_INIT(h) ==
    IF ~h.self THEN ERR_NOINIT
    ELSE IF ~h.pData THEN ERR_NOINIT
    ELSE IF ~h.arr THEN ERR_NOINIT
    ELSE SUCC

\* if (!self) return ERR_NOINIT: the test every Vector function starts with.
VectorCheckInit(h) == IF ~h.self THEN ERR_NOINIT ELSE SUCC

NoHndRet == [op |-> "none", rc |-> SUCC, entered |-> FALSE]

HandleInit ==
    /\ hnd = Handle("Vector", TRUE, TRUE, TRUE)
    /\ hndRet = NoHndRet

\* The caller takes another handle for its next calls.
HandleTake(h) ==
    /\ hndRet.rc # FAULT
    /\ h # hnd
    /\ hnd' = h
    /\ hndRet' = NoHndRet

\* A HashMap function called on a handle that is not a constructed map.
HashMapOnHandle(op) ==
    /\ hndRet.rc # FAULT
    /\ hnd.obj = "HashMap" /\ ~HandleReady(hnd)
    /\ hndRet' = [op |-> op, rc |-> CHECK_INIT(hnd),
                  entered |-> CHECK_INIT(hnd) = SUCC]
    /\ UNCHANGED hnd

\* A Vector function called on a handle that is not a constructed vector.
\* Past the test of self the body reads self->pData->...: with pData NULL
\* that is a NULL dereference; with only aItem_ NULL it reads the fields
\* the caller left and, in the functions that use the array, indexes NULL.
VectorOnHandle(op) ==
    /\ hndRet.rc # FAULT
    /\ hnd.obj = "Vector" /\ ~HandleReady(hnd)
    /\ UNCHANGED hnd
    /\ IF VectorCheckInit(hnd) # SUCC
       THEN hndRet' = [op |-> op, rc |-> VectorCheckInit(hnd), entered |-> FALSE]
       ELSE \E ub \in (IF ~hnd.pData \/ op \in VecArrayOps
                       THEN {"fault", "goes on"} ELSE {"goes on"}) :
              hndRet' = [op |-> op,
                         rc |-> IF ub = "fault" THEN FAULT ELSE WildRc,
                         entered |-> TRUE]

\* Calls on the constructed containers, through their handles.
VectorOnReady(item, reallocOk) ==
    /\ hndRet.rc # FAULT
    /\ hnd = Handle("Vector", TRUE, TRUE, TRUE)
    /\ VectorPushBack(item, reallocOk)
    /\ hndRet' = [op |-> "push_back", rc |-> vecRet'.rc, entered |-> TRUE]
    /\ UNCHANGED hnd

HashMapOnReady ==
    /\ hndRet.rc # FAULT
    /\ hnd = Handle("HashMap", TRUE, TRUE, TRUE)
    /\ HashMapSize
    /\ hndRet' = [op |-> "size", rc |-> mapRet'.rc, entered |-> TRUE]
    /\ UNCHANGED hnd

(***************************************************************************)
(*                              TEARDOWN                                   *)
(***************************************************************************)
\* The blocks Init allocates besides the nodes: the object, its private
\* data and its array.  SLListInit allocates nothing.
OwnBlocks(obj) ==
    IF obj = "HashMap" THEN {"HashMap", "pData", "aSlot_"}
    ELSE IF obj = "Vector" THEN {"Vector", "pData", "aItem_"}
    ELSE {}

TeardownInit == teardown \in [obj : {"HashMap", "Vector", "SLList"},
                              done : {FALSE}, freed : {{}}]

Live(obj) == teardown.obj = obj /\ ~teardown.done

\* HashMapDeinit on the constructed map: free(pData->aSlot_),
\* free(pObj->pData), free(*ppObj).  The nodes of the slot lists are not
\* visited.
HashMapDeinit ==
    /\ Live("HashMap") /\ ~mapFault
    /\ teardown' = [teardown EXCEPT !.done = TRUE,
                                    !.freed = {"aSlot_", "pData", "HashMap"}]
    /\ UNCHANGED mapVars

\* VectorDeinit on the constructed vector: under bClean the destroy loop
\* over aItem[0 .. iSize_ - 1], then the three frees.
VectorDeinit(bClean) ==
    /\ Live("Vector") /\ ~vecFault
    /\ \E ub \in VecOutcomes(bClean /\ vec_iSize_ > Len(vec_aItem_)) :
         IF ub = "fault"
         THEN /\ VecFaulted([NoVecRet EXCEPT !.op = "deinit", !.clean = bClean])
              /\ UNCHANGED teardown
         ELSE /\ teardown' = [teardown EXCEPT !.done = TRUE,
                                !.freed = {"aItem_", "pData", "Vector"}]
              /\ VecReturns([NoVecRet EXCEPT !.op = "deinit", !.clean = bClean,
                               !.destroyed = IF bClean
                                             THEN VecItems(vec_iSize_, vec_aItem_)
                                             ELSE <<>>])

\* The heap after free() of every node of chain c.
RECURSIVE FreeChain(_, _)
FreeChain(heap, c) ==
    IF c = <<>> THEN heap
    ELSE FreeChain([heap EXCEPT ![Head(c)] = FreeListNode], Tail(c))

\* SLListDeinit: the nodes are freed from pHead on, until pHead is NULL.
SLListDeinit ==
    /\ Live("SLList") /\ ~listFault
    /\ listNode' = FreeChain(listNode, ListChain)
    /\ sl_pHead' = NULL
    /\ listRet' = [NoListRet EXCEPT !.op = "deinit"]
    /\ teardown' = [teardown EXCEPT !.done = TRUE]
    /\ UNCHANGED <<sl_pTail, sl_iSize, listFault>>

\* What the torn-down container allocated that is still allocated: of the
\* blocks of Init, and of the nodes.
LeakedBlocks == OwnBlocks(teardown.obj) \ teardown.freed
LeakedNodes ==
    IF teardown.obj = "HashMap" THEN {a \in Addrs : slotNode[a].live}
    ELSE IF teardown.obj = "SLList" THEN ListAddrs \ ListFree(listNode)
    ELSE {}

(***************************************************************************)
(*                           SPECIFICATIONS                                *)
(***************************************************************************)
NextVec ==
    \/ \E item \in Items, reallocOk \in BOOLEAN :
         VectorPushBack(item, reallocOk) /\ UNCHANGED notVec
    \/ \E item \in Items, iIdx \in -1..(vec_iSize_ + 1), reallocOk \in BOOLEAN :
         VectorInsert(item, iIdx, reallocOk) /\ UNCHANGED notVec
    \/ \E bClean \in BOOLEAN : VectorPopBack(bClean) /\ UNCHANGED notVec
    \/ \E iIdx \in -1..(vec_iSize_ + 1), bClean \in BOOLEAN :
         VectorDelete(iIdx, bClean) /\ UNCHANGED notVec
    \/ \E iSize \in 1..MaxCap, bClean \in BOOLEAN, reallocOk \in BOOLEAN :
         VectorResize(iSize, bClean, reallocOk) /\ UNCHANGED notVec
    \/ VectorSize /\ UNCHANGED notVec
    \/ VectorCapacity /\ UNCHANGED notVec
    \/ \E item \in Items, iIdx \in -1..(vec_iSize_ + 1), bClean \in BOOLEAN :
         VectorSet(item, iIdx, bClean) /\ UNCHANGED notVec
    \/ \E iIdx \in -1..(vec_iSize_ + 1) : VectorGet(iIdx) /\ UNCHANGED notVec

\* Both containers as constructed.
Init ==
    /\ MapInit /\ VecInit /\ ListInit /\ HeapInit /\ heapCompare = "default"
    /\ HandleInit /\ TeardownInit /\ teardown.obj = "Vector"

\* Put, get, remove and size on a map whose cursor is not used.
NextMap ==
    \/ \E pPair \in Pairs, size \in {0, keySize}, mallocOk \in BOOLEAN :
         HashMapPut(pPair, size, mallocOk) /\ UNCHANGED notMap
    \/ \E key \in Keys, size \in {0, keySize}, hasOut \in BOOLEAN :
         HashMapGet(key, size, hasOut) /\ UNCHANGED notMap
    \/ \E key \in Keys, size \in {0, keySize} :
         HashMapFind(key, size) /\ UNCHANGED notMap
    \/ \E key \in Keys, size \in {0, keySize} :
         HashMapRemove(key, size) /\ UNCHANGED notMap
    \/ HashMapSize /\ UNCHANGED notMap

SpecMap == Init /\ [][NextMap]_vars

\* Put and remove interleaved with the calls of the iteration cursor.
NextMapIter ==
    \/ \E pPair \in Pairs, size \in {0, keySize}, mallocOk \in BOOLEAN :
         HashMapPut(pPair, size, mallocOk) /\ UNCHANGED notMap
    \/ \E key \in Keys, size \in {0, keySize} :
         HashMapRemove(key, size) /\ UNCHANGED notMap
    \/ \E bReset \in BOOLEAN, hasOut \in BOOLEAN :
         HashMapIterate(bReset, hasOut) /\ UNCHANGED notMap

SpecMapIter == Init /\ [][NextMapIter]_vars

\* Put and remove interleaved with the installation of a hash function.
NextMapHash ==
    \/ \E pPair \in Pairs, mallocOk \in BOOLEAN :
         HashMapPut(pPair, keySize, mallocOk) /\ UNCHANGED notMap
    \/ \E key \in Keys : HashMapRemove(key, keySize) /\ UNCHANGED notMap
    \/ \E pFunc \in {"HashMurMur32", "UserHash"} :
         HashMapSetHash(pFunc) /\ UNCHANGED notMap

SpecMapHash == Init /\ [][NextMapHash]_vars

\* The calls of one vector, the map left as constructed.
InitVec == Init /\ keySize = 1

SpecVec == InitVec /\ [][NextVec]_vars

\* The calls of one list; malloc returns any free address, or NULL.
NextList ==
    \/ \E pItem \in ListItems, new \in ListFree(listNode) \cup {NULL} :
         SLListAppend(pItem, new) /\ UNCHANGED notList
    \/ \E idx \in 0..(MaxListNodes + 1), pItem \in ListItems,
          new \in ListFree(listNode) \cup {NULL} :
         SLListInsert(idx, pItem, new) /\ UNCHANGED notList
    \/ \E pItem \in ListItems : SLListRemove(pItem) /\ UNCHANGED notList
    \/ \E idx \in 0..(MaxListNodes + 1) : SLListPop(idx) /\ UNCHANGED notList
    \/ \E pItem \in ListItems : SLListSearch(pItem) /\ UNCHANGED notList
    \/ SLListReverse /\ UNCHANGED notList

SpecList == InitVec /\ [][NextList]_vars

\* The calls of one heap, under either comparator.
InitHeap ==
    /\ MapInit /\ keySize = 1 /\ VecInit /\ ListInit /\ HeapInit
    /\ HandleInit /\ TeardownInit /\ teardown.obj = "Vector"

NextHeap ==
    \/ \E item \in HeapItems, reallocOk \in BOOLEAN :
         BinHeapPush(item, reallocOk) /\ UNCHANGED notHeap
    \/ \E bClean \in BOOLEAN : BinHeapPop(bClean) /\ UNCHANGED notHeap
    \/ BinHeapTop /\ UNCHANGED notHeap
    \/ BinHeapSize /\ UNCHANGED notHeap

SpecHeap == InitHeap /\ [][NextHeap]_vars

\* Calls through the handles a caller can hold.
NextHandle ==
    \/ \E h \in Handles :
         HandleTake(h) /\ UNCHANGED notHnd
    \/ \E op \in MapOps :
         HashMapOnHandle(op) /\ UNCHANGED notHnd
    \/ \E op \in VecOps :
         VectorOnHandle(op) /\ UNCHANGED notHnd
    \/ \E item \in Items, reallocOk \in BOOLEAN :
         VectorOnReady(item, reallocOk)
           /\ UNCHANGED <<mapVars, listVars, heapVars, teardown>>
    \/ HashMapOnReady /\ UNCHANGED <<vecVars, listVars, heapVars, teardown>>

SpecHandle == InitVec /\ [][NextHandle]_vars

\* One container is filled and then torn down.
InitTeardown ==
    /\ MapInit /\ keySize = 1 /\ VecInit /\ ListInit /\ HeapInit
    /\ heapCompare = "default" /\ HandleInit /\ TeardownInit

NextTeardown ==
    \/ \E pPair \in Pairs, mallocOk \in BOOLEAN :
         Live("HashMap") /\ HashMapPut(pPair, keySize, mallocOk)
           /\ UNCHANGED notMap
    \/ \E key \in Keys :
         Live("HashMap") /\ HashMapRemove(key, keySize) /\ UNCHANGED notMap
    \/ HashMapDeinit /\ UNCHANGED <<vecVars, listVars, heapVars, hndVars>>
    \/ \E item \in Items, reallocOk \in BOOLEAN :
         Live("Vector") /\ VectorPushBack(item, reallocOk) /\ UNCHANGED notVec
    \/ \E iSize \in 1..MaxCap, bClean \in BOOLEAN, reallocOk \in BOOLEAN :
         Live("Vector") /\ VectorResize(iSize, bClean, reallocOk)
           /\ UNCHANGED notVec
    \/ \E bClean \in BOOLEAN :
         VectorDeinit(bClean) /\ UNCHANGED <<mapVars, listVars, heapVars, hndVars>>
    \/ \E pItem \in ListItems, new \in ListFree(listNode) \cup {NULL} :
         Live("SLList") /\ SLListAppend(pItem, new) /\ UNCHANGED notList
    \/ \E idx \in 0..MaxListNodes, pItem \in ListItems,
          new \in ListFree(listNode) \cup {NULL} :
         Live("SLList") /\ SLListInsert(idx, pItem, new) /\ UNCHANGED notList
    \/ \E idx \in 0..MaxListNodes :
         Live("SLList") /\ SLListPop(idx) /\ UNCHANGED notList
    \/ SLListDeinit /\ UNCHANGED <<mapVars, vecVars, heapVars, hndVars>>

SpecTeardown == InitTeardown /\ [][NextTeardown]_vars

(***************************************************************************)
(*                      CLAIMS ABOUT THE VECTOR                            *)
(***************************************************************************)
\* C6: after any sequence of push_back, insert, pop_back, delete, set and
\* resize calls, 0 <= size <= capacity holds, the item array has capacity
\* slots and every index below size refers to a slot inside it.
C6_VectorInvariant ==
    /\ 0 <= vec_iSize_
    /\ vec_iSize_ <= vec_iCapacity_
    /\ Len(vec_aItem_) = vec_iCapacity_
    /\ \A i \in 0..(vec_iSize_ - 1) : i + 1 \in 1..Len(vec_aItem_)

\* C7: on a freshly constructed vector, after n successful push_back calls
\* size() equals n, the last index returns the item just pushed and every
\* earlier index returns the item pushed there.
C7_PushBackAppends ==
    vecOnlyPush =>
        /\ vec_iSize_ = Len(vecPushed)
        /\ \A i \in 0..(Len(vecPushed) - 1) :
             VecGet(vec_iSize_, vec_aItem_, i) = [rc |-> SUCC, out |-> vecPushed[i + 1]]
        /\ vecRet.op = "size" => vecRet.out = Len(vecPushed)
        /\ (vecRet.op = "get" /\ vecRet.idx \in 0..(Len(vecPushed) - 1)) =>
             /\ vecRet.rc = SUCC
             /\ vecRet.out = vecPushed[vecRet.idx + 1]
        /\ (vecRet.op = "push_back" /\ vecRet.rc = SUCC) =>
             /\ Len(vecPushed) > 0
             /\ vecPushed[Len(vecPushed)] = vecRet.item
             /\ VecGet(vec_iSize_, vec_aItem_, vec_iSize_ - 1).out = vecRet.item

\* Three items were pushed, the array grew twice, and get(0) returned the
\* first one, different from the third.
C7_Witness ==
    /\ vecOnlyPush
    /\ Len(vecPushed) = 3
    /\ vecPushed[1] # vecPushed[3]
    /\ vec_iCapacity_ = 4
    /\ vecRet.op = "get" /\ vecRet.idx = 0 /\ vecRet.out = vecPushed[1]

\* What get(j) returns in the state before a step and in the state after it.
VecGetBefore(j) == VecGet(vec_iSize_, vec_aItem_, j)
VecGetAfter(j) == VecGet(vec_iSize_', vec_aItem_', j)

\* The right-shift law of a step that inserts item at iIdx.
InsertLaw(item, iIdx) ==
    /\ vec_iSize_' = vec_iSize_ + 1
    /\ VecGetAfter(iIdx) = [rc |-> SUCC, out |-> item]
    /\ \A j \in (iIdx + 1)..vec_iSize_ :
         /\ VecGetAfter(j).rc = SUCC
         /\ VecGetAfter(j) = VecGetBefore(j - 1)
    /\ \A j \in 0..(iIdx - 1) :
         /\ VecGetAfter(j).rc = SUCC
         /\ VecGetAfter(j) = VecGetBefore(j)
    /\ \A j \in 0..vec_iSize_ : j + 1 \in 1..Len(vec_aItem_')

\* C8: for 0 <= i <= size, after insert(x, i) get(i) returns x, get(j) for
\* every j > i returns the item previously at j - 1, get(j) for j < i is
\* unchanged and size grows by one, also when the array had to grow (the
\* growth itself may fail with ERR_NOMEM).
C8_InsertShiftsRight ==
    [][(/\ vecRet'.op = "insert"
        /\ vecRet'.idx \in 0..vec_iSize_
        /\ vecRet'.rc # ERR_NOMEM) =>
            /\ vecRet'.rc = SUCC
            /\ InsertLaw(vecRet'.item, vecRet'.idx)
      ]_vars

\* The same law for the calls made on a vector whose size is within its
\* capacity.
InsertShiftsRightWithinCapacity ==
    [][(/\ vecRet'.op = "insert"
        /\ vecRet'.idx \in 0..vec_iSize_
        /\ vecRet'.rc # ERR_NOMEM
        /\ vec_iSize_ <= vec_iCapacity_) =>
            /\ vecRet'.rc = SUCC
            /\ InsertLaw(vecRet'.item, vecRet'.idx)
      ]_vars

\* C9: insert(x, i) followed by delete(i, clean = false) leaves the item
\* sequence and the size exactly as they were before the insert.
C9_DeleteUndoesInsert ==
    (vecRet.op = "delete" /\ vecRet.undoes) =>
        /\ vecRet.rc = SUCC
        /\ vec_iSize_ = Len(vecRet.want)
        /\ VecItems(vec_iSize_, vec_aItem_) = vecRet.want
        /\ \A j \in 1..vec_iSize_ : j \in 1..Len(vec_aItem_)

\* The same law when the insert was made on a vector whose size was within
\* its capacity.
DeleteUndoesInsertWithinCapacity ==
    (vecRet.op = "delete" /\ vecRet.undoes /\ Len(vecRet.want) < vec_iCapacity_) =>
        /\ vecRet.rc = SUCC
        /\ vec_iSize_ = Len(vecRet.want)
        /\ VecItems(vec_iSize_, vec_aItem_) = vecRet.want

\* How many of the entries of the sequence q are v.
CountIn(q, v) == Cardinality({k \in 1..Len(q) : q[k] = v})

\* The law of a step that resizes to n below the size with clean set.
ResizeCleanLaw(n) ==
    /\ \A j \in (n + 1)..vec_iSize_ : j \in 1..Len(vec_aItem_)
    /\ Len(vecRet'.destroyed) = vec_iSize_ - n
    /\ \A v \in Items \cup {GarbageItem} :
         CountIn(vecRet'.destroyed, v) =
           Cardinality({j \in (n + 1)..vec_iSize_ : vec_aItem_[j] = v})
    /\ vec_iSize_' = n
    /\ vec_iCapacity_' = n
    /\ Len(vec_aItem_') = n
    /\ \A j \in 1..n : vec_aItem_'[j] = vec_aItem_[j]

\* C10: resize with clean = true to n below the current size invokes the
\* destroy callback exactly once on each item at indices n..size-1 and on
\* no other item, sets size to n and capacity to exactly n, and leaves the
\* first n items unchanged (the reallocation may fail with ERR_NOMEM).
C10_ResizeCleanDestroysTail ==
    [][(/\ vecRet'.op = "resize"
        /\ vecRet'.clean
        /\ vecRet'.n < vec_iSize_
        /\ vecRet'.rc # ERR_NOMEM) =>
            /\ vecRet'.rc = SUCC
            /\ ResizeCleanLaw(vecRet'.n)
      ]_vars

\* The same law for the calls made on a vector whose size is within its
\* capacity.
ResizeCleanDestroysTailWithinCapacity ==
    [][(/\ vecRet'.op = "resize"
        /\ vecRet'.clean
        /\ vecRet'.n < vec_iSize_
        /\ vecRet'.rc # ERR_NOMEM
        /\ vec_iSize_ <= vec_iCapacity_) =>
            /\ vecRet'.rc = SUCC
            /\ ResizeCleanLaw(vecRet'.n)
      ]_vars

\* The index law for the call recorded in r, made at size size: whether the
\* index is in the range of the operation, and what an out-of-range call does.
IdxInRange(r, size) ==
    IF r.op = "insert" THEN 0 <= r.idx /\ r.idx <= size
    ELSE IF r.op = "pop_back" THEN size > 0
    ELSE 0 <= r.idx /\ r.idx < size

IndexLaw ==
    vecRet'.op \in {"insert", "get", "set", "delete", "pop_back"} =>
      IF IdxInRange(vecRet', vec_iSize_)
      THEN \/ vecRet'.rc = SUCC
           \/ vecRet'.op = "insert" /\ vecRet'.rc = ERR_NOMEM
      ELSE /\ vecRet'.rc = ERR_IDX
           /\ vecRet'.destroyed = <<>>
           /\ UNCHANGED <<vec_iSize_, vec_iCapacity_, vec_aItem_>>

\* C18: insert succeeds exactly for 0 <= idx <= size (unless the growth of
\* a full array fails for lack of memory), get, set and delete exactly for
\* 0 <= idx < size, pop_back exactly when size > 0; an out-of-range call
\* returns ERR_IDX, destroys nothing and leaves size, capacity and items
\* unchanged.
C18_IndexBounds == [][IndexLaw]_vars

\* The same law for the calls made while the size is within the capacity.
IndexBoundsWithinCapacity ==
    [][vec_iSize_ <= vec_iCapacity_ => IndexLaw]_vars

\* An insert at idx = size + 1 was refused on a vector that holds items.
IndexRefusedSeen ==
    /\ vecRet.op = "insert" /\ vecRet.rc = ERR_IDX
    /\ vec_iSize_ >= 1 /\ vecRet.idx = vec_iSize_ + 1

(***************************************************************************)
(*                       CLAIMS ABOUT THE LIST                             *)
(***************************************************************************)
\* The sequence q read backwards, and q without its entry at position i.
SeqReversed(q) == [i \in 1..Len(q) |-> q[Len(q) + 1 - i]]
SeqWithout(q, i) == [j \in 1..(Len(q) - 1) |-> IF j < i THEN q[j] ELSE q[j + 1]]

\* C11: in any list state reachable through append, insert, remove, pop and
\* reverse, a successful append(x) makes the item sequence read from the
\* head the previous sequence followed by x, and size grows by one.
C11_AppendAddsAtTail ==
    [][(listRet'.op = "append" /\ listRet'.out # NULL /\ ~listRet'.fault) =>
          /\ ListItemsOf(listNode', sl_pHead') = Append(ListSeq, listRet'.item)
          /\ sl_iSize' = sl_iSize + 1
      ]_vars

\* The same law for the appends made while pTail is the last node reachable
\* from pHead (or the list is empty).
AppendAddsAtTailWhenTailKept ==
    [][(/\ listRet'.op = "append" /\ listRet'.out # NULL /\ ~listRet'.fault
        /\ \/ sl_pHead = NULL
           \/ ListChain[Len(ListChain)] = sl_pTail) =>
          /\ ListItemsOf(listNode', sl_pHead') = Append(ListSeq, listRet'.item)
          /\ sl_iSize' = sl_iSize + 1
      ]_vars

\* C12: a reverse yields exactly the reversed item sequence (read from the
\* head) and leaves size unchanged; a reverse that follows a reverse
\* returns the list to the sequence it had before the first.
C12_ReverseTwiceIsIdentity ==
    listRet.op = "reverse" =>
        /\ ~listRet.fault
        /\ ListSeq = SeqReversed(listRet.before)
        /\ sl_iSize = listRet.idx
        /\ listRet.twice => ListSeq = listRet.want

\* A second reverse has returned a list of three items, the first different
\* from the last, to its sequence.
C12_Witness ==
    /\ listRet.op = "reverse" /\ listRet.twice
    /\ Len(ListSeq) = 3
    /\ ListSeq[1] # ListSeq[3]
    /\ ListSeq = listRet.want

\* The law of a step that pops position idx.
PopLaw(idx) ==
    IF idx < sl_iSize
    THEN /\ ~listRet'.fault
         /\ idx < Len(ListSeq)
         /\ listRet'.out = ListSeq[idx + 1]
         /\ ListItemsOf(listNode', sl_pHead') = SeqWithout(ListSeq, idx + 1)
         /\ sl_iSize' = sl_iSize - 1
    ELSE /\ ~listRet'.fault
         /\ listRet'.out = NULL
         /\ UNCHANGED <<sl_pHead, sl_pTail, sl_iSize, listNode>>

\* C13: pop(idx) with idx < size returns the item at position idx, removes
\* exactly that node (the other items keep their order) and decrements size
\* by one; with idx >= size it returns NULL and leaves the list unchanged.
C13_PopRemovesOneNode ==
    [][listRet'.op = "pop" => PopLaw(listRet'.idx)]_vars

\* The same law for the pops made while size is the number of nodes
\* reachable from pHead.
PopRemovesOneNodeWhenSizeKept ==
    [][(listRet'.op = "pop" /\ sl_iSize = Len(ListChain)) =>
          PopLaw(listRet'.idx)]_vars

\* C14: a successful append(x) followed immediately by search(x) returns
\* true.
C14_SearchFindsAppended ==
    (listRet.op = "search" /\ listRet.appended) => listRet.found

\* pTail is the last node reachable from pHead, NULL for the empty list.
TailIsLast ==
    IF ListChain = <<>> THEN sl_pTail = NULL
    ELSE sl_pTail = ListChain[Len(ListChain)]

\* C22: after any sequence of append, insert, remove, pop and reverse,
\* pTail is the last node reachable from pHead, or NULL when iSize is 0.
C22_TailIsLastNode ==
    ~listFault => /\ TailIsLast
                  /\ sl_iSize = 0 => sl_pTail = NULL

\* The nodes reachable from pHead.
ChainNodes == {ListChain[j] : j \in 1..Len(ListChain)}

\* iSize counts the nodes reachable from pHead, no node is reached twice,
\* and every allocated node is reached.
SizeIsChainLength ==
    /\ sl_iSize = Len(ListChain)
    /\ Cardinality(ChainNodes) = Len(ListChain)
    /\ ListAddrs \ ListFree(listNode) = ChainNodes

\* C23: after any sequence of append, insert, remove, pop and reverse,
\* iSize equals the number of nodes reachable from pHead, the chain is
\* acyclic, and no allocated node has become unreachable.
C23_SizeIsReachableCount == ~listFault => SizeIsChainLength

\* A call made while the size law holds and pTail is the last node (or the
\* list is empty) keeps the size law.
SizeKeptWhenTailKept ==
    [][(SizeIsChainLength /\ (sl_pHead = NULL \/ TailIsLast) /\ ~listFault')
         => SizeIsChainLength']_vars

\* Such a call was made on a list of two nodes.
SizeKeptSeen ==
    /\ SizeIsChainLength /\ TailIsLast /\ sl_iSize = 2
    /\ listRet.op = "insert"

(***************************************************************************)
(*                  CLAIMS ABOUT FIND AND THE KEY SIZE                     *)
(***************************************************************************)
\* C16: in every state, for every key and non-zero key size, find returns
\* SUCC exactly when get returns SUCC and NOKEY exactly when get returns
\* NOKEY, and neither call changes the map.
C16_FindAgreesWithGet ==
    [][/\ mapRet'.op \in {"find", "get"} =>
            UNCHANGED <<mapConst, mapCursor, mapStore, mapFuncs>>
       /\ (mapRet'.op = "find" /\ mapRet'.size # 0) =>
            /\ mapRet'.rc \in {SUCC, NOKEY}
            /\ mapRet'.rc =
                 MapLookup(slotNode, aSlot_, mapRet'.key, mapRet'.size).rc
       /\ (mapRet'.op = "get" /\ mapRet'.rc \in {SUCC, NOKEY}) =>
            mapRet'.rc =
              FindWalk(slotNode,
                       SlotAt(aSlot_, SlotIndex(mapRet'.key, mapRet'.size)),
                       mapRet'.key, mapRet'.size)]_vars

\* A find returned SUCC for a key stored behind another node of its slot
\* list, while some other key is not stored.
C16_Witness ==
    /\ mapRet.op = "find" /\ mapRet.rc = SUCC
    /\ LET c == Chain(slotNode, SlotAt(aSlot_, SlotIndex(mapRet.key, mapRet.size)))
       IN  ChainFind(slotNode, c, mapRet.key, mapRet.size) = 2
    /\ \E k \in Keys :
         FindWalk(slotNode, SlotAt(aSlot_, SlotIndex(k, keySize)), k, keySize) = NOKEY

\* The last call was a put, get, find or remove made with key size 0.
ZeroSizeCall(r) == r.op \in {"put", "get", "find", "remove"} /\ r.size = 0

\* C17 as stated: every put, get, find or remove made with key size 0
\* returns ERR_KEYSIZE and leaves the pairs and the size unchanged.
C17_ZeroKeySizeFails ==
    [][ZeroSizeCall(mapRet') =>
         /\ mapRet'.rc = ERR_KEYSIZE
         /\ UNCHANGED mapStore]_vars

\* C17, amended: a get whose output pointer is NULL returns ERR_GET
\* whatever the key size; every other put, get, find or remove made with
\* key size 0 returns ERR_KEYSIZE; all of them leave the pairs and the size
\* unchanged.
C17_ZeroKeySizeFailsUnlessGetNull ==
    [][/\ (mapRet'.op = "get" /\ ~mapRet'.hasOut) =>
            /\ mapRet'.rc = ERR_GET
            /\ UNCHANGED mapStore
       /\ (ZeroSizeCall(mapRet') /\ mapRet'.hasOut) =>
            /\ mapRet'.rc = ERR_KEYSIZE
            /\ UNCHANGED mapStore]_vars

\* A get with key size 0 and a NULL output pointer returned ERR_GET on a
\* map that holds pairs.
C17_Witness ==
    /\ mapRet.op = "get" /\ mapRet.size = 0 /\ ~mapRet.hasOut
    /\ mapRet.rc = ERR_GET
    /\ StoredPairs # {}

\* A remove with key size 0 returned ERR_KEYSIZE on a map that holds pairs.
ZeroSizeRemoveSeen ==
    /\ mapRet.op = "remove" /\ mapRet.size = 0 /\ mapRet.rc = ERR_KEYSIZE
    /\ StoredPairs # {}

(***************************************************************************)
(*                      CLAIMS ABOUT THE HANDLES                           *)
(***************************************************************************)
\* C19: every Vector and HashMap operation called on a handle that is NULL,
\* or whose private data or backing array is NULL, returns ERR_NOINIT
\* without entering its body, so without reading or writing the container.
C19_UninitializedHandle ==
    (hndRet.op # "none" /\ ~HandleReady(hnd)) =>
      /\ hndRet.rc = ERR_NOINIT
      /\ ~hndRet.entered

\* The same for the HashMap functions and for the NULL handle.
UninitializedHandleWhereChecked ==
    (hndRet.op # "none" /\ ~HandleReady(hnd)
       /\ (hnd.obj = "HashMap" \/ ~hnd.self)) =>
      /\ hndRet.rc = ERR_NOINIT
      /\ ~hndRet.entered

\* A HashMap function refused a handle whose array is NULL.
UninitializedHandleRefusedSeen ==
    /\ hnd = Handle("HashMap", TRUE, TRUE, FALSE)
    /\ hndRet.op = "put" /\ hndRet.rc = ERR_NOINIT

(***************************************************************************)
(*                      CLAIMS ABOUT TEARDOWN                              *)
(***************************************************************************)
\* C20: after Deinit of a container in any state its operations reach,
\* every array buffer, hash-map chain node and list node the container
\* allocated has been freed.
C20_TeardownFreesAll ==
    teardown.done => LeakedBlocks = {} /\ LeakedNodes = {}

\* The same for the vector, and for the blocks HashMapInit allocates.
TeardownFreesArrays == teardown.done => LeakedBlocks = {}

\* The same for a list in which iSize counts the nodes reachable from pHead
\* and every allocated node is one of them.
TeardownFreesListWhenTailKept ==
    [][(teardown.obj = "SLList" /\ teardown'.done /\ ~teardown.done
          /\ ListAddrs \ ListFree(listNode) =
               {ListChain[j] : j \in 1..Len(ListChain)})
        => LeakedNodes' = {}]_vars

\* A vector that holds items was torn down.
VectorTornDownSeen ==
    teardown.obj = "Vector" /\ teardown.done /\ vec_iSize_ >= 2

(***************************************************************************)
(*                  CLAIMS ABOUT THE PLACEMENT OF PAIRS                    *)
(***************************************************************************)
LiveNodes == {a \in Addrs : slotNode[a].live}
\* The nodes of the slot list of slot s.
SlotNodes(s) ==
    LET c == Chain(slotNode, SlotAt(aSlot_, s))
    IN  {c[j] : j \in 1..Len(c)}

\* Every allocated node is in exactly one slot list, that of the slot its
\* key hashes to under pHash_, and no two nodes hold byte-equal keys.
PlacementLaw ==
    /\ \A a \in LiveNodes :
         /\ a \in SlotNodes(SlotIndex(slotNode[a].pPair.key, keySize))
         /\ Cardinality({t \in UsedSlots : a \in SlotNodes(t)}) = 1
    /\ \A a, b \in LiveNodes :
         a # b => ~MemCmpEq(slotNode[a].pPair.key, slotNode[b].pPair.key, keySize)

PlacementKeptUnderOneHash ==
    [][(PlacementLaw /\ ~mapFault' /\ (pHash_' = pHash_ \/ LiveNodes = {}))
         => PlacementLaw']_vars

\* Two pairs are stored under a hash function installed on the empty map.
PlacementKeptSeen ==
    /\ pHash_ = "UserHash" /\ Cardinality(LiveNodes) = 2 /\ PlacementLaw

(***************************************************************************)
(*                  CLAIMS ABOUT THE ITERATION CURSOR                      *)
(***************************************************************************)
\* pIterNode_ is NULL or a node of one of the slot lists.
IterNodeLinked ==
    \/ pIterNode_ = NULL
    \/ /\ pIterNode_ \in LiveNodes
       /\ \E t \in UsedSlots : pIterNode_ \in SlotNodes(t)

\* The three cursor fields have been written, the slot index is below the
\* slot count and the cursor node is NULL or linked.
CursorValid ==
    /\ iterIndet = {}
    /\ 0 <= iIterIdx_ /\ iIterIdx_ < iCountSlot_
    /\ IterNodeLinked

\* C25: whenever iterate(reset=false) is called, bEnd_, iIterIdx_ and
\* pIterNode_ were set by construction or by an earlier iterate call, the
\* slot index is below the slot count, and the cursor node is NULL or a
\* node still linked in the map, also with put and remove calls in between.
\* (A call with a NULL output pointer returns ERR_GET before it reads the
\* cursor and is left aside.)
C25_CursorValid ==
    [][(mapRet'.op = "iterate" /\ ~mapRet'.reset /\ mapRet'.rc # ERR_GET)
         => CursorValid]_vars

\* The same for the calls that follow a reset with no put or remove since:
\* the cursor is valid, the slot index being the slot count once the
\* iteration has ended.
CursorValidSinceReset ==
    [][(mapRet'.op = "iterate" /\ ~mapRet'.reset /\ iterClean) =>
         /\ iterIndet = {}
         /\ IterNodeLinked
         /\ IF bEnd_ THEN iIterIdx_ = iCountSlot_
            ELSE 0 <= iIterIdx_ /\ iIterIdx_ < iCountSlot_]_vars

\* An iteration over two pairs has yielded both since its reset.
CursorValidSeen ==
    /\ iterClean /\ Len(iterSeen) = 2
    /\ mapRet.op = "iterate" /\ mapRet.rc = SUCC

\* The cursor designates a node that a remove has freed.
CursorDanglingSeen ==
    /\ iterIndet = {} /\ ~mapFault
    /\ pIterNode_ \in Addrs /\ ~slotNode[pIterNode_].live

(***************************************************************************)
(*                  CLAIMS ABOUT ALLOCATION FAILURE                        *)
(***************************************************************************)
\* What the claim asks of a call whose allocation failed, container by
\* container: the out-of-memory signal, no fault, items and size unchanged.
NoMemLawMap ==
    (mapRet'.op = "put" /\ mapRet'.nomem) =>
      /\ mapRet'.rc = ERR_NOMEM
      /\ ~mapFault'
      /\ UNCHANGED mapStore
NoMemLawVec ==
    (vecRet'.op \in {"push_back", "insert"} /\ vecRet'.nomem) =>
      /\ vecRet'.rc = ERR_NOMEM
      /\ ~vecFault'
      /\ UNCHANGED <<vec_iSize_, vec_iCapacity_, vec_aItem_>>
NoMemLawList ==
    (listRet'.op \in {"append", "insert"} /\ listRet'.nomem) =>
      /\ listRet'.out = NULL
      /\ ~listFault'
      /\ UNCHANGED <<sl_pHead, sl_pTail, sl_iSize, listNode>>

\* C21: when the allocation in vector push_back/insert, hash-map put or
\* list append/insert fails, the call returns ERR_NOMEM (the list: a NULL
\* node), dereferences no NULL pointer and leaves the container's items
\* and size unchanged.
C21_AllocFailureReturned ==
    [][NoMemLawMap /\ NoMemLawVec /\ NoMemLawList]_vars

\* The same for the vector and the list alone.
AllocFailureReturnedVecList == [][NoMemLawVec /\ NoMemLawList]_vars

\* A push_back on a full vector, and an insert into a list that holds
\* nodes, whose allocation failed.
PushBackNoMemSeen ==
    vecRet.op = "push_back" /\ vecRet.nomem /\ vec_iSize_ >= 2
ListInsertNoMemSeen ==
    listRet.op = "insert" /\ listRet.nomem /\ sl_iSize >= 1

(***************************************************************************)
(*                       CLAIMS ABOUT THE HEAP                             *)
(***************************************************************************)
\* The number of items the bag holds, and the items of the sequence a as a bag.
HeldCount == heapHeld[1] + heapHeld[3] + heapHeld[5] + heapHeld[8]
BagOfArr(a) == [x \in HeapItems |-> Cardinality({j \in 1..Len(a) : a[j] = x})]

\* C15: after any interleaving of push and pop under a fixed comparator,
\* top returns the comparator-minimal item among those held, size returns
\* the number of pushes less the number of pops, and top and pop on an empty
\* heap return ERR_IDX, top clearing its output.
C15_TopIsMinimal ==
    /\ BagOfArr(heapArr) = heapHeld
    /\ Len(heapArr) = HeldCount
    /\ heapArr # <<>> =>
         /\ HeapTop(heapArr).rc = SUCC
         /\ heapHeld[HeapTop(heapArr).out] > 0
         /\ \A x \in HeapItems :
              heapHeld[x] > 0 =>
                BinHeapCompare(heapCompare, HeapTop(heapArr).out, x) <= 0
    /\ heapArr = <<>> => HeapTop(heapArr) = [rc |-> ERR_IDX, out |-> NULL]
    /\ heapRet.op = "top" => /\ heapRet.rc = HeapTop(heapArr).rc
                             /\ heapRet.out = HeapTop(heapArr).out
    /\ heapRet.op = "size" => heapRet.out = HeldCount
    /\ (heapRet.op = "pop" /\ heapRet.rc = ERR_IDX) => HeldCount = 0
    /\ (heapRet.op = "pop" /\ heapRet.rc = SUCC) =>
         \A x \in HeapItems :
           heapHeld[x] > 0 => BinHeapCompare(heapCompare, heapRet.item, x) <= 0

\* 5, 3, 8 and 1 were pushed on a min-heap and a pop has removed 1: the heap
\* holds 3, 5 and 8 and top returns 3.
C15_Witness ==
    /\ heapCompare = "default"
    /\ heapRet.op = "pop" /\ heapRet.rc = SUCC /\ heapRet.item = 1
    /\ heapHeld = [x \in HeapItems |-> IF x = 1 THEN 0 ELSE 1]
    /\ HeapTop(heapArr) = [rc |-> SUCC, out |-> 3]

====
